---- MODULE Spec2Model ----
(***************************************************************************)
(* A model of the type-reflection transformer of @deepkit/type:            *)
(*   - the instruction set (ReflectionOp) and the pack/unpack codec,       *)
(*   - the reflection-mode lookup (findReflectionConfig) and the gating of *)
(*     transformSourceFile / decorateClass / decorateFunctionDeclaration,  *)
(*   - the AST-to-instruction extractor (extractPackStructOfType).         *)
(*                                                                         *)
(* JavaScript strings are sequences of character codes in which the        *)
(* characters '0'..'9' are 0..9 and 'a'..'z' are 10..35, so that the       *)
(* base-36 text produced by BigInt.toString(36) and read by parseInt(s,36) *)
(* is the sequence of its digits, most significant first.                  *)
(* BigInt values are sequences of base-64 digits, least significant first, *)
(* because TLC's integers are 32 bits wide and the packed integer is not.  *)
(***************************************************************************)
EXTENDS Integers, Sequences, FiniteSets, TLC

VARIABLES
    cpc,        \* codec: "input" | "packed" | "unpacked"
    cin,        \* codec: the argument of pack: [isArray, ops, stack]
    cpacked,    \* codec: the value pack returned
    cout,       \* codec: the value unpack returned: [ops, stack]
    reflectionMode,  \* ReflectionTransformer.reflectionMode: "undefined" or a mode
    fsys,       \* the tsconfig.json of each directory, from dirname(fileName) up to the root
    env,        \* the type checker's symbols of the source file, by identifier
    sourceFile, \* gating: the source file handed to transformSourceFile
    tpc,        \* gating: "new" | "transformed" | "looked"
    tout,       \* gating: what transformSourceFile made of each statement
    lookup,     \* gating: the last result of findReflectionConfig
    fsreads,    \* gating: the directories whose tsconfig.json was read so far, in order
    lookupsLeft,  \* gating: how many more lookups the host makes on this transformer
    xpc,        \* extraction: "idle" | "primed" | "done"
    xdecl,      \* extraction: the node handed to getTypeOfType / extractPackStructOfType
    xprev,      \* extraction: <<>> or <<a type extracted into the PackStruct before xdecl>>
    xentry,     \* extraction: the PackStruct as it stood when xdecl's extraction began
    xacc,       \* extraction: the PackStruct (with its bookkeeping)
    xpacked,    \* extraction: what packOpsAndStack returned (<<>> for undefined, else <<Packed>>)
    dclass,     \* decoration: the class declaration as the last pass left it
    dprev,      \* decoration: the class declaration handed to the last pass
    dpasses,    \* decoration: the number of decorateClass passes made
    rpc,        \* resolution: "idle" | "done"
    rname,      \* resolution: the identifier handed to resolveDeclaration
    rout        \* resolution: what resolveDeclaration returned

cvars == <<cpc, cin, cpacked, cout>>
tvars == <<reflectionMode, fsys, env>>
gvars == <<sourceFile, tpc, tout, lookup, fsreads, lookupsLeft>>
xvars == <<xpc, xdecl, xprev, xentry, xacc, xpacked>>
dvars == <<dclass, dprev, dpasses>>
rvars == <<rpc, rname, rout>>

----------------------------------------------------------------------------
(* Bounds of the model.                                                    *)

MaxOps == 4
MaxStack == 2

----------------------------------------------------------------------------
(* The instruction set.                                                    *)

packSizeByte == 6
packSize == 64
Radix == 36
ChunkLen == 12

OpEnd == 0
OpAny == 1
OpVoid == 2
OpString == 3
OpNumber == 4
OpBoolean == 5
OpBigint == 6
OpNull == 7
OpUndefined == 8
OpLiteral == 9
OpFunction == 10
OpMethod == 11
OpMethodSignature == 12
OpProperty == 13
OpPropertySignature == 14
OpConstructor == 15
OpClass == 16
OpOptional == 17
OpPrivate == 18
OpProtected == 19
OpAbstract == 20
OpEnum == 21
OpArray == 25
OpUnion == 26
OpIndexSignature == 28
OpObjectLiteral == 29
OpFrame == 31
OpDate == 32
OpPromise == 44

----------------------------------------------------------------------------
(* JavaScript values that can sit on the literal stack or in a Packed      *)
(* array: a string (a property name, or the encoded opcodes), a literal    *)
(* AST node (compared by identity), an arrow function node (a lazy         *)
(* reference, compared by identity).                                       *)

JsString(chars) == [kind |-> "string", chars |-> chars, id |-> 0]
LiteralNode(chars, id) == [kind |-> "literalNode", chars |-> chars, id |-> id]
ArrowNode(chars, id) == [kind |-> "arrow", chars |-> chars, id |-> id]

\* the text "string"
StringLit == <<28, 29, 27, 18, 23, 16>>

----------------------------------------------------------------------------
(* Arbitrary-precision arithmetic on digit sequences.                      *)

RECURSIVE StripLeadingZeros(_)
StripLeadingZeros(b) ==
    IF b # <<>> /\ Head(b) = 0 THEN StripLeadingZeros(Tail(b)) ELSE b

RECURSIVE Reverse(_)
Reverse(s) == IF s = <<>> THEN <<>> ELSE Append(Reverse(Tail(s)), Head(s))

\* Long division of a big-endian base-B numeral by d: quotient digits and remainder.
RECURSIVE DivBE(_, _, _)
DivBE(b, B, d) ==
    IF b = <<>> THEN [q |-> <<>>, r |-> 0]
    ELSE LET p == DivBE(SubSeq(b, 1, Len(b) - 1), B, d)
             cur == p.r * B + b[Len(b)]
         IN [q |-> Append(p.q, cur \div d), r |-> cur % d]

\* A big-endian base-B numeral rewritten in base R, big-endian, <<>> for zero.
RECURSIVE ToRadix(_, _, _)
ToRadix(b, B, R) ==
    LET n == StripLeadingZeros(b)
    IN IF n = <<>> THEN <<>>
       ELSE LET dv == DivBE(n, B, R)
            IN Append(ToRadix(dv.q, B, R), dv.r)

\* packedOp += BigInt(ops[i]) * BigInt(packSize) ** BigInt(i), for i = 0..n-1:
\* the little-endian base-64 digits of the sum, carries propagated.
RECURSIVE Accumulate(_, _)
Accumulate(ops, carry) ==
    IF ops = <<>>
    THEN IF carry = 0 THEN <<>> ELSE <<carry % packSize>> \o Accumulate(<<>>, carry \div packSize)
    ELSE LET cur == Head(ops) + carry
         IN <<cur % packSize>> \o Accumulate(Tail(ops), cur \div packSize)

\* BigInt.prototype.toString(36)
ToString36(le) ==
    LET s == ToRadix(Reverse(le), packSize, Radix)
    IN IF s = <<>> THEN <<0>> ELSE s

\* parseInt(s, 36) of a text of base-36 digits: NaN for the empty text, else
\* the number, kept as little-endian base-64 digits.  The texts unpackOps
\* parses within the bounds of this model stay below 2^53, where a double is
\* exact: the encoded strings have at most 13 characters, and the last 12 are
\* dropped before a chunk is parsed.
ParseInt36(s) ==
    IF s = <<>> THEN [nan |-> TRUE, d |-> <<>>]
    ELSE [nan |-> FALSE, d |-> Reverse(ToRadix(s, Radix, packSize))]

\* (ops / 2 ** (packSizeByte * i)) & (packSize - 1): ToInt32 of NaN is 0;
\* dividing by a power of two and masking selects the i-th base-64 digit.
Slot(num, i) ==
    IF num.nan THEN 0
    ELSE IF i + 1 <= Len(num.d) THEN num.d[i + 1] ELSE 0

\* for (let i = 0; ; i++) { op = slot i; if (op === 0) break; decodedOps.push(op) }
RECURSIVE DecodeSlots(_, _, _)
DecodeSlots(decoded, num, i) ==
    IF Slot(num, i) = 0 THEN decoded
    ELSE DecodeSlots(Append(decoded, Slot(num, i)), num, i + 1)

\* String.prototype.slice(0, -n) and slice(-n)
SliceDropLast(s, n) == IF Len(s) <= n THEN <<>> ELSE SubSeq(s, 1, Len(s) - n)
SliceLast(s, n) == IF Len(s) <= n THEN s ELSE SubSeq(s, Len(s) - n + 1, Len(s))

RECURSIVE unpackOps(_, _)
unpackOps(decodedOps, encodedOPs) ==
    IF encodedOPs = <<>> THEN decodedOps
    ELSE LET rest == SliceDropLast(encodedOPs, ChunkLen)
             num == ParseInt36(SliceLast(rest, ChunkLen))
         IN unpackOps(DecodeSlots(decodedOps, num, 0), rest)

\* a pack that puts the encoded string in front of the stack
pack_StringFirst(packOrOps) ==
    LET opNumbers == ToString36(Accumulate(packOrOps.ops, 0))
    IN IF ~packOrOps.isArray /\ Len(packOrOps.stack) # 0
       THEN [isArray |-> TRUE, elems |-> <<JsString(opNumbers)>> \o packOrOps.stack]
       ELSE [isArray |-> FALSE, elems |-> <<JsString(opNumbers)>>]

\* pack(packOrOps): a bare string, or [...stack, opNumbers]
pack(packOrOps) ==
    LET opNumbers == ToString36(Accumulate(packOrOps.ops, 0))
    IN IF ~packOrOps.isArray /\ Len(packOrOps.stack) # 0
       THEN [isArray |-> TRUE, elems |-> Append(packOrOps.stack, JsString(opNumbers))]
       ELSE [isArray |-> FALSE, elems |-> <<JsString(opNumbers)>>]

\* unpack(pack): a bare string is elems[1]
unpack(p) ==
    IF ~p.isArray
    THEN [ops |-> unpackOps(<<>>, p.elems[1].chars), stack |-> <<>>]
    ELSE LET encodedOPs == p.elems[Len(p.elems)]
         IN IF JsString(StringLit) # encodedOPs
            THEN [ops |-> <<>>, stack |-> <<>>]
            ELSE [ops |-> unpackOps(<<>>, encodedOPs.chars),
                  stack |-> IF Len(p.elems) > 1
                            THEN SubSeq(p.elems, 1, Len(p.elems) - 1) ELSE <<>>]

----------------------------------------------------------------------------
(* The codec as a state machine: an input is drawn, packed, unpacked.      *)

OpAlphabet == {OpAny, OpString, OpClass, 63}

RECURSIVE SeqsUpTo(_, _)
SeqsUpTo(S, n) ==
    IF n = 0 THEN {<<>>}
    ELSE LET prev == SeqsUpTo(S, n - 1)
         IN prev \cup {Append(s, x) : s \in {t \in prev : Len(t) = n - 1}, x \in S}

StackEntries == {JsString(<<10>>), JsString(StringLit), ArrowNode(<<22>>, 1)}

\* opcode sequences of 9, 10 and 11 opcodes: their packed integer takes more
\* than 8 six-bit slots
LongOps == {[i \in 1..n |-> op] : n \in 9..11, op \in {OpString, 63}}

\* pack takes a PackStruct (ops, stack) or a bare opcode array (no stack)
CodecInputs ==
    {i \in [isArray : BOOLEAN, ops : SeqsUpTo(OpAlphabet, MaxOps) \cup LongOps,
            stack : SeqsUpTo(StackEntries, MaxStack)] : i.isArray => i.stack = <<>>}

NoPacked == [isArray |-> FALSE, elems |-> <<>>]
NoUnpacked == [ops |-> <<>>, stack |-> <<>>]

CodecInit ==
    /\ cpc = "input"
    /\ cin \in CodecInputs
    /\ cpacked = NoPacked
    /\ cout = NoUnpacked

Pack ==
    /\ cpc = "input"
    /\ cpacked' = pack(cin)
    /\ cpc' = "packed"
    /\ UNCHANGED <<cin, cout, tvars, gvars, xvars, dvars, rvars>>

Unpack ==
    /\ cpc = "packed"
    /\ cout' = unpack(cpacked)
    /\ cpc' = "unpacked"
    /\ UNCHANGED <<cin, cpacked, tvars, gvars, xvars, dvars, rvars>>

vars == <<cvars, tvars, gvars, xvars, dvars, rvars>>

CodecNext == Pack \/ Unpack

----------------------------------------------------------------------------
(* The AST.  Every node is a record of one shape:                          *)
(*   kind  the SyntaxKind, text  the name / keyword / literal text,        *)
(*   id    the identity of a literal node (AST nodes compare by identity), *)
(*   type  the type annotation: <<>> or <<node>>,                          *)
(*   kids  members / parameters / union subtypes / type arguments,         *)
(*   mods  modifiers and the question token, ext  the names an interface   *)
(*   extends, tags  the JSDoc tags attached to the node.                   *)

Mk(kind, text, id, type, kids, mods, ext, tags) ==
    [kind |-> kind, text |-> text, id |-> id, type |-> type, kids |-> kids,
     mods |-> mods, ext |-> ext, tags |-> tags]

NoNode == Mk("none", "", 0, <<>>, <<>>, {}, <<>>, <<>>)
Keyword(k) == Mk("keyword", k, 0, <<>>, <<>>, {}, <<>>, <<>>)
Paren(t) == Mk("paren", "", 0, <<t>>, <<>>, {}, <<>>, <<>>)
ArrayT(t) == Mk("array", "", 0, <<t>>, <<>>, {}, <<>>, <<>>)
UnionT(ts) == Mk("union", "", 0, <<>>, ts, {}, <<>>, <<>>)
LiteralT(text, id) == Mk("literal", text, id, <<>>, <<>>, {}, <<>>, <<>>)
Ref(name, args) == Mk("ref", name, 0, <<>>, args, {}, <<>>, <<>>)
QualifiedRef(name) == Mk("ref", name, 0, <<>>, <<>>, {"qualified"}, <<>>, <<>>)
TypeLiteral(members) == Mk("typeLiteral", "", 0, <<>>, members, {}, <<>>, <<>>)
Interface(name, members, ext) == Mk("interface", name, 0, <<>>, members, {}, ext, <<>>)
PropertySignature(name, id, type) == Mk("propertySignature", name, id, type, <<>>, {}, <<>>, <<>>)
MethodSignature(name, id) == Mk("methodSignature", name, id, <<>>, <<>>, {}, <<>>, <<>>)
Param(type) == Mk("parameter", "", 0, type, <<>>, {}, <<>>, <<>>)
IndexSignature(id, param, type) == Mk("indexSignature", "", id, <<type>>, <<param>>, {}, <<>>, <<>>)
PropertyDeclaration(name, type, mods, tags) ==
    Mk("propertyDeclaration", name, 0, type, <<>>, mods, <<>>, tags)
Callable(kind, name, params, type, mods, tags) == Mk(kind, name, 0, type, params, mods, <<>>, tags)
TypeAlias(name, type) == Mk("typeAlias", name, 0, <<type>>, <<>>, {}, <<>>, <<>>)
EnumDecl(name) == Mk("enum", name, 0, <<>>, <<>>, {}, <<>>, <<>>)
ClassDecl(name, members, tags) == Mk("class", name, 0, <<>>, members, {}, <<>>, tags)
MappedType == Mk("mappedType", "", 0, <<>>, <<>>, {}, <<>>, <<>>)
ImportSpecifier(name) == Mk("importSpecifier", name, 0, <<>>, <<>>, {}, <<>>, <<>>)

CallableKinds == {"method", "constructor", "arrow", "functionExpression", "functionDeclaration"}

\* the characters of the identifiers and literal texts the model uses
NameChars(t) ==
    CASE t = "a" -> <<10>>
      [] t = "b" -> <<11>>
      [] t = "c" -> <<12>>
      [] t = "p" -> <<25>>
      [] t = "m" -> <<22>>
      [] t = "f" -> <<15>>
      [] t = "E" -> <<40>>
      [] t = "K" -> <<46>>
      [] t = "Model" -> <<48, 24, 13, 14, 21>>
      [] t = "Color" -> <<38, 24, 21, 24, 27>>
      [] t = "constructor" -> <<12, 24, 23, 28, 29, 27, 30, 12, 29, 24, 27>>
      [] t = "__type" -> <<62, 62, 29, 34, 25, 14>>
      [] OTHER -> <<>>

\* getNameAsString(node.name): the declared name, '' for a member without one
getNameAsString(node) == node.text

\* hasModifier(node, kind)
hasModifier(node, m) == m \in node.mods

----------------------------------------------------------------------------
(* The resolver.  env maps an identifier to the symbol the type checker    *)
(* gives for it: decl is symbol.declarations[0] (<<>> when there is none), *)
(* declared is the first declaration of getDeclaredTypeOfSymbol(symbol)    *)
(* (<<>> when it yields none), module the module specifier of the import.  *)
(* An identifier outside DOMAIN env has no symbol.                         *)

Symbol(decl, declared, module) == [decl |-> decl, declared |-> declared, module |-> module]
LocalSymbol(d) == Symbol(<<d>>, <<d>>, "")
ImportedSymbol(name, declared, module) == Symbol(<<ImportSpecifier(name)>>, declared, module)

\* export { name [as propertyName] } from 'module' / export * from 'module'
ExportNamed(elements, module) == [named |-> TRUE, elements |-> elements, module |-> module]
ExportStar(module) == [named |-> FALSE, elements |-> <<>>, module |-> module]
SourceFileOf(locals, statements) == [locals |-> locals, statements |-> statements]

\* The other source files of the program, by module specifier.
Files ==
    [model |-> SourceFileOf(
                  [Model |-> ClassDecl("Model", <<>>, <<>>),
                   Color |-> EnumDecl("Color"),
                   Message |-> Interface("Message", <<PropertySignature("a", 9, <<Keyword("string")>>)>>, <<>>)],
                  <<ExportStar("shapes")>>),
     shapes |-> SourceFileOf(
                  [Shape |-> Interface("Shape", <<PropertySignature("b", 9, <<Keyword("number")>>)>>, <<>>)],
                  <<>>),
     index |-> SourceFileOf(
                  <<>>,
                  <<ExportNamed(<<[name |-> "Form", propertyName |-> "Shape"],
                                  [name |-> "Color", propertyName |-> ""]>>, "shapes"),
                    ExportStar("model")>>)]

\* findDeclarationInFile(sourceFile, declarationName)
findDeclarationInFile(file, declarationName) ==
    IF declarationName \in DOMAIN Files[file].locals
    THEN <<Files[file].locals[declarationName]>> ELSE <<>>

MaxDepth == 12

\* resolveImportSpecifier(declarationName, importOrExport): <<>> or <<declaration>>.
\* hops bounds the chain of re-exports followed.
RECURSIVE resolveImportSpecifier(_, _, _)
RECURSIVE resolveExports(_, _, _, _, _)
RECURSIVE resolveElements(_, _, _, _, _)

resolveElements(declarationName, stmt, elements, k, hops) ==
    IF k > Len(elements) THEN <<>>
    ELSE LET element == elements[k]
             found == IF element.name = declarationName
                      THEN resolveImportSpecifier(
                               IF element.propertyName # "" THEN element.propertyName
                               ELSE declarationName, stmt.module, hops - 1)
                      ELSE <<>>
         IN IF found # <<>> THEN found
            ELSE resolveElements(declarationName, stmt, elements, k + 1, hops)

resolveExports(declarationName, file, statements, k, hops) ==
    IF k > Len(statements) THEN <<>>
    ELSE LET stmt == statements[k]
             found == IF stmt.named
                      THEN resolveElements(declarationName, stmt, stmt.elements, 1, hops)
                      ELSE resolveImportSpecifier(declarationName, stmt.module, hops - 1)
         IN IF found # <<>> THEN found
            ELSE resolveExports(declarationName, file, statements, k + 1, hops)

resolveImportSpecifier(declarationName, module, hops) ==
    IF hops = 0 \/ module = "" \/ module \notin DOMAIN Files THEN <<>>
    ELSE LET declaration == findDeclarationInFile(module, declarationName)
         IN IF declaration # <<>> THEN declaration
            ELSE resolveExports(declarationName, module, Files[module].statements, 1, hops)

\* resolveDeclaration(e): <<>> or <<[declaration, importSpecifier]>>, where
\* importSpecifier is <<>> or <<the import specifier's name>>
resolveDeclaration(e) ==
    IF "qualified" \in e.mods \/ e.text \notin DOMAIN env THEN <<>>
    ELSE LET symbol == env[e.text]
             first == symbol.decl
             isImport == first # <<>> /\ first[1].kind = "importSpecifier"
             importSpecifier == IF isImport THEN <<first[1].text>> ELSE <<>>
             declaration ==
                 IF first = <<>> \/ isImport
                 THEN IF symbol.declared # <<>> THEN symbol.declared
                      ELSE IF isImport
                           THEN resolveImportSpecifier("Message", symbol.module, MaxDepth)
                           ELSE first
                 ELSE first
         IN IF declaration = <<>> THEN <<>>
            ELSE <<[declaration |-> declaration[1], importSpecifier |-> importSpecifier]>>

----------------------------------------------------------------------------
(* The type extractor.  The accumulator is the PackStruct under            *)
(* construction (ops, stack) with bookkeeping that the code does not keep: *)
(*   ann[i]   for a parameter slot ops[i], the stack entry the emitting     *)
(*            opcode refers to and the stack length when it was emitted;    *)
(*            NoAnn for an opcode,                                          *)
(*   fresh    the number of arrow nodes createArrowFunction has made,       *)
(*   synth    the import specifiers whose flags got NodeFlags.Synthesized,  *)
(*   members  the local `members` list of the interface or object type      *)
(*            literal being extracted (saved and restored around a nested   *)
(*            one), lastMembers  that list as it stood when the extraction  *)
(*            of an interface or object type literal last finished,         *)
(*   unions   for every union of two or more subtypes extracted so far:     *)
(*            entry, the length of ops when its branch was entered; first,  *)
(*            the length of ops when its first subtype was handed over;     *)
(*            at, the position of its union opcode,                         *)
(*   overflow the recursion went deeper than the call stack allows          *)
(*            (RangeError: the extraction is abandoned).                    *)

NoEntry == [kind |-> "none", chars |-> <<>>, id |-> 0]
NoAnn == [entry |-> NoEntry, at |-> 0]

EmptyAcc ==
    [ops |-> <<>>, stack |-> <<>>, ann |-> <<>>, fresh |-> 0, synth |-> {},
     members |-> <<>>, lastMembers |-> <<>>, unions |-> <<>>, overflow |-> FALSE]

\* ops.push(op); nothing is pushed once the extraction is abandoned
PushOp(acc, op) ==
    IF acc.overflow THEN acc
    ELSE [acc EXCEPT !.ops = Append(@, op), !.ann = Append(@, NoAnn)]

IndexOf(stack, entry) ==
    IF \E i \in 1..Len(stack) : stack[i] = entry
    THEN (CHOOSE i \in 1..Len(stack) : stack[i] = entry /\ \A j \in 1..(i - 1) : stack[j] # entry) - 1
    ELSE -1

\* a findOrAddStackEntry that returns stack.length after the push
findOrAddStackEntry_OffByOne(stack, entry) ==
    IF IndexOf(stack, entry) # -1
    THEN [stack |-> stack, index |-> IndexOf(stack, entry)]
    ELSE [stack |-> Append(stack, entry), index |-> Len(stack) + 1]

\* findOrAddStackEntry(stack, entry): the grown stack and the index returned
findOrAddStackEntry(stack, entry) ==
    IF IndexOf(stack, entry) # -1
    THEN [stack |-> stack, index |-> IndexOf(stack, entry)]
    ELSE [stack |-> Append(stack, entry), index |-> Len(stack)]

\* ops.push(op, findOrAddStackEntry(stack, entry))
PushOpWithEntry(acc, op, entry) ==
    LET r == findOrAddStackEntry(acc.stack, entry)
    IN IF acc.overflow THEN acc ELSE
       [acc EXCEPT !.ops = @ \o <<op, r.index>>,
                   !.ann = @ \o <<NoAnn, [entry |-> entry, at |-> Len(r.stack)]>>,
                   !.stack = r.stack]

KeywordOps ==
    [string |-> OpString, number |-> OpNumber, boolean |-> OpBoolean, bigint |-> OpBigint,
     void |-> OpVoid, null |-> OpNull, undefined |-> OpUndefined]

knownClasses == [Date |-> OpDate, String |-> OpString, Number |-> OpNumber]

\* the modifier opcodes pushed after a property declaration or a method
RECURSIVE PushModifiers(_, _, _)
PushModifiers(acc, node, mods) ==
    IF mods = <<>> THEN acc
    ELSE PushModifiers(IF hasModifier(node, Head(mods).m) THEN PushOp(acc, Head(mods).op) ELSE acc,
                       node, Tail(mods))

\* member modifiers pushed in the order abstract, protected, private
MemberModifiers_Reversed ==
    <<[m |-> "abstract", op |-> OpAbstract], [m |-> "protected", op |-> OpProtected],
      [m |-> "private", op |-> OpPrivate]>>

\* private, protected, abstract: the order of the hasModifier tests
MemberModifiers ==
    <<[m |-> "private", op |-> OpPrivate], [m |-> "protected", op |-> OpProtected],
      [m |-> "abstract", op |-> OpAbstract]>>

\* the type annotations of the parameters that have one
RECURSIVE ParameterTypes(_)
ParameterTypes(params) ==
    IF params = <<>> THEN <<>>
    ELSE Head(params).type \o ParameterTypes(Tail(params))

RECURSIVE extractPackStructOfType(_, _, _)
RECURSIVE extractEach(_, _, _)
RECURSIVE extractMembers(_, _, _)
RECURSIVE extractMemberList(_, _, _)
RECURSIVE extractHeritage(_, _, _)
RECURSIVE extractPackStructOfTypeReference(_, _, _)
RECURSIVE extractUnion(_, _, _)
RECURSIVE extractCallable(_, _, _)
RECURSIVE extractPropertyDeclaration(_, _, _)

\* for (const t of nodes) this.extractPackStructOfType(t, ops, stack)
extractEach(nodes, acc, depth) ==
    IF nodes = <<>> \/ acc.overflow THEN acc
    ELSE extractEach(Tail(nodes), extractPackStructOfType(Head(nodes), acc, depth), depth)

\* a member loop that never skips a name already present
RECURSIVE extractMemberList_NoShadow(_, _, _)
extractMemberList_NoShadow(ms, acc, depth) ==
    IF ms = <<>> \/ acc.overflow THEN acc
    ELSE extractMemberList_NoShadow(
             Tail(ms),
             extractPackStructOfType(
                 Head(ms), [acc EXCEPT !.members = Append(@, Head(ms))], depth),
             depth)

\* the loop over declaration.members of extractMembers
extractMemberList(ms, acc, depth) ==
    IF ms = <<>> \/ acc.overflow THEN acc
    ELSE LET member == Head(ms)
             name == getNameAsString(member)
             has == \E i \in 1..Len(acc.members) : getNameAsString(acc.members[i]) = name
         IN IF name # "" /\ has
            THEN extractMemberList(Tail(ms), acc, depth)
            ELSE extractMemberList(
                     Tail(ms),
                     extractPackStructOfType(
                         member, [acc EXCEPT !.members = Append(@, member)], depth),
                     depth)

\* the loop over the extends clause of extractMembers
extractHeritage(ext, acc, depth) ==
    IF ext = <<>> \/ acc.overflow THEN acc
    ELSE LET resolved == resolveDeclaration(Ref(Head(ext), <<>>))
         IN IF resolved # <<>> /\ resolved[1].declaration.kind = "interface"
            THEN extractHeritage(Tail(ext),
                                 extractMembers(resolved[1].declaration, acc, depth - 1), depth)
            ELSE extractHeritage(Tail(ext), acc, depth)

\* const extractMembers = (declaration) => { ... }
extractMembers(declaration, acc, depth) ==
    IF acc.overflow THEN acc
    ELSE IF depth <= 0 THEN [acc EXCEPT !.overflow = TRUE]
    ELSE LET a1 == extractMemberList(declaration.kids, acc, depth)
         IN IF declaration.kind = "interface" THEN extractHeritage(declaration.ext, a1, depth)
            ELSE a1

\* an ensureImportIsEmitted that leaves the import specifier's flags alone
ensureImportIsEmitted_Never(acc, resolved) == acc

\* ensureImportIsEmitted(): importSpecifier.flags |= NodeFlags.Synthesized
ensureImportIsEmitted(acc, resolved) ==
    [acc EXCEPT !.synth = @ \cup {resolved.importSpecifier[i] :
                                    i \in 1..Len(resolved.importSpecifier)}]

extractPackStructOfTypeReference(type, acc, depth) ==
    IF "qualified" \notin type.mods /\ type.text \in DOMAIN knownClasses
    THEN PushOp(acc, knownClasses[type.text])
    ELSE IF "qualified" \notin type.mods /\ type.text = "Promise"
    THEN PushOp(IF type.kids # <<>>
                THEN extractPackStructOfType(type.kids[1], acc, depth)
                ELSE PushOp(acc, OpAny),
                OpPromise)
    ELSE LET resolved == resolveDeclaration(type)
         IN IF resolved = <<>> THEN PushOp(acc, OpAny)
            ELSE LET declaration == resolved[1].declaration
                     ensured == ensureImportIsEmitted(acc, resolved[1])
                     arrow(a) == ArrowNode(NameChars(type.text), a.fresh + 1)
                 IN CASE declaration.kind = "typeAlias" ->
                            extractPackStructOfType(declaration.type[1], acc, depth)
                      [] declaration.kind = "mappedType" -> acc
                      [] declaration.kind = "enum" ->
                            PushOpWithEntry([ensured EXCEPT !.fresh = @ + 1], OpEnum, arrow(acc))
                      [] declaration.kind = "class" ->
                            PushOp(extractEach(type.kids,
                                               [ensured EXCEPT !.fresh = @ + 1,
                                                               !.stack = Append(@, arrow(acc))],
                                               depth),
                                   OpClass)
                      [] OTHER -> extractPackStructOfType(declaration, acc, depth)

\* the branch of extractPackStructOfType for a property declaration with a type
extractPropertyDeclaration(node, acc, d) ==
    LET a == extractPackStructOfType(node.type[1], acc, d)
        q == IF "optional" \in node.mods THEN PushOp(a, OpOptional) ELSE a
    IN PushModifiers(q, node, MemberModifiers)

\* the branch of extractPackStructOfType for a method, a constructor without
\* a return type, an arrow, a function expression, a function declaration
extractCallable(node, acc, d) ==
    IF Len(node.kids) = 0 /\ node.type = <<>> THEN acc
    ELSE LET a == extractEach(ParameterTypes(node.kids), acc, d)
             r == IF node.type # <<>>
                  THEN extractPackStructOfType(node.type[1], a, d)
                  ELSE PushOp(a, OpAny)
             k == PushOp(r, IF node.kind \in {"method", "constructor"}
                            THEN OpMethod ELSE OpFunction)
         IN IF node.kind = "method"
            THEN PushModifiers(k, node, MemberModifiers)
            ELSE k

\* a union branch that opens a frame whatever the accumulator holds
extractUnion_AlwaysFrame(node, acc, d) ==
    IF Len(node.kids) = 0 THEN acc
    ELSE IF Len(node.kids) = 1 THEN extractPackStructOfType(node.kids[1], acc, d)
    ELSE LET f == PushOp(acc, OpFrame)
             r == PushOp(extractEach(node.kids, f, d), OpUnion)
         IN [r EXCEPT !.unions = Append(@, [entry |-> Len(acc.ops), first |-> Len(f.ops),
                                            at |-> Len(r.ops)])]

\* the branch of extractPackStructOfType for a union type
extractUnion(node, acc, d) ==
    IF Len(node.kids) = 0 THEN acc
    ELSE IF Len(node.kids) = 1 THEN extractPackStructOfType(node.kids[1], acc, d)
    ELSE LET f == IF Len(acc.ops) # 0 THEN PushOp(acc, OpFrame) ELSE acc
             r == PushOp(extractEach(node.kids, f, d), OpUnion)
         IN [r EXCEPT !.unions = Append(@, [entry |-> Len(acc.ops), first |-> Len(f.ops),
                                            at |-> Len(r.ops)])]

\* extractPackStructOfType(node, ops, stack); depth is the room left on the call stack
extractPackStructOfType(node, acc, depth) ==
    IF acc.overflow THEN acc
    ELSE IF depth <= 0 THEN [acc EXCEPT !.overflow = TRUE]
    ELSE LET d == depth - 1
    IN CASE node.kind = "paren" -> extractPackStructOfType(node.type[1], acc, d)
         [] node.kind = "keyword" /\ node.text \in DOMAIN KeywordOps ->
                PushOp(acc, KeywordOps[node.text])
         [] node.kind \in {"interface", "typeLiteral"} ->
                LET a == extractMembers(node, [acc EXCEPT !.members = <<>>], d)
                IN PushOp([a EXCEPT !.lastMembers = a.members, !.members = acc.members],
                          OpObjectLiteral)
         [] node.kind = "ref" -> extractPackStructOfTypeReference(node, acc, d)
         [] node.kind = "array" ->
                PushOp(extractPackStructOfType(node.type[1], acc, d), OpArray)
         [] node.kind = "propertySignature" /\ node.type # <<>> ->
                PushOpWithEntry(extractPackStructOfType(node.type[1], acc, d),
                                OpPropertySignature, JsString(NameChars(getNameAsString(node))))
         [] node.kind = "constructor" /\ node.type # <<>> ->
                PushOp(extractPackStructOfType(node.type[1], acc, d), OpConstructor)
         [] node.kind = "propertyDeclaration" /\ node.type # <<>> ->
                extractPropertyDeclaration(node, acc, d)
         [] node.kind \in CallableKinds /\ ~(node.kind = "constructor" /\ node.type # <<>>) ->
                extractCallable(node, acc, d)
         [] node.kind = "literal" ->
                IF node.text = "null" THEN PushOp(acc, OpNull)
                ELSE PushOpWithEntry(acc, OpLiteral, LiteralNode(NameChars(node.text), node.id))
         [] node.kind = "union" ->
                extractUnion(node, acc, d)
         [] node.kind = "indexSignature" ->
                LET a == IF node.kids[1].type # <<>>
                         THEN extractPackStructOfType(node.kids[1].type[1], acc, d)
                         ELSE PushOp(acc, OpAny)
                IN PushOp(extractPackStructOfType(node.type[1], a, d), OpIndexSignature)
         [] OTHER -> PushOp(acc, OpAny)

----------------------------------------------------------------------------
(* The reflection-mode lookup.  A JavaScript value read from a JSDoc tag   *)
(* or from tsconfig.json is [t, v]: t its typeof, v its text.              *)

JsUndefined == [t |-> "undefined", v |-> ""]
JsBool(b) == [t |-> "boolean", v |-> IF b THEN "true" ELSE "false"]
JsStr(s) == [t |-> "string", v |-> s]

Tag(name, comment) == [name |-> name, comment |-> comment]

reflectionModes == {"always", "default", "never"}

\* parseReflectionMode(mode)
parseReflectionMode(mode) ==
    IF mode.t = "boolean" THEN (IF mode.v = "true" THEN "default" ELSE "never")
    ELSE IF mode.t = "undefined" \/ mode.v = "" THEN "never"
    ELSE mode.v

\* a tsconfig.json of one directory
NoConfig == [exists |-> FALSE, parses |-> FALSE, reflection |-> JsUndefined]
BrokenConfig == [exists |-> TRUE, parses |-> FALSE, reflection |-> JsUndefined]
Config(reflection) == [exists |-> TRUE, parses |-> TRUE, reflection |-> reflection]

\* for (const tag of tags) if (!reflection && tag.tagName.text === 'reflection'
\*     && 'string' === typeof tag.comment) return parseReflectionMode(tag.comment || true)
RECURSIVE ScanTags(_)
ScanTags(tags) ==
    IF tags = <<>> THEN <<>>
    ELSE IF Head(tags).name = "reflection" /\ Head(tags).comment.t = "string"
         THEN <<parseReflectionMode(IF Head(tags).comment.v = "" THEN JsBool(TRUE)
                                    ELSE Head(tags).comment)>>
         ELSE ScanTags(Tail(tags))

\* do { ... current = current.parent } while (current): chain holds the tags
\* of the node, of its parent, ..., of the source file
RECURSIVE ScanChain(_)
ScanChain(chain) ==
    IF chain = <<>> THEN <<>>
    ELSE IF ScanTags(Head(chain)) # <<>> THEN ScanTags(Head(chain))
    ELSE ScanChain(Tail(chain))

\* while (currentDir) { ... }: directory k of fsys, then its parents up to the
\* root.  this.resolvedTsConfig is read and never written, so every existing
\* file is read; reads and warns list the directories read and warned about.
RECURSIVE ScanDirs(_, _, _)
RECURSIVE ScanDirs_StopAtBroken(_, _, _)

\* a directory walk that a tsconfig.json which does not parse brings to an end
ScanDirs_StopAtBroken(k, reads, warns) ==
    IF k > Len(fsys) THEN [mode |-> "never", reads |-> reads, warns |-> warns]
    ELSE IF ~fsys[k].exists THEN ScanDirs(k + 1, reads, warns)
    ELSE IF ~fsys[k].parses
         THEN [mode |-> "never", reads |-> Append(reads, k), warns |-> Append(warns, k)]
    ELSE IF fsys[k].reflection.t # "undefined"
         THEN [mode |-> parseReflectionMode(fsys[k].reflection),
               reads |-> Append(reads, k), warns |-> warns]
         ELSE ScanDirs(k + 1, Append(reads, k), warns)

\* the directory walk of findReflectionConfig from directory k upwards
ScanDirs(k, reads, warns) ==
    IF k > Len(fsys) THEN [mode |-> "never", reads |-> reads, warns |-> warns]
    ELSE IF ~fsys[k].exists THEN ScanDirs(k + 1, reads, warns)
    ELSE IF ~fsys[k].parses THEN ScanDirs(k + 1, Append(reads, k), Append(warns, k))
    ELSE IF fsys[k].reflection.t # "undefined"
         THEN [mode |-> parseReflectionMode(fsys[k].reflection),
               reads |-> Append(reads, k), warns |-> warns]
         ELSE ScanDirs(k + 1, Append(reads, k), warns)

\* findReflectionConfig(node)
findReflectionConfig(chain) ==
    IF ScanChain(chain) # <<>>
    THEN [mode |-> ScanChain(chain)[1], reads |-> <<>>, warns |-> <<>>]
    ELSE IF reflectionMode # "undefined"
    THEN [mode |-> reflectionMode, reads |-> <<>>, warns |-> <<>>]
    ELSE ScanDirs(1, <<>>, <<>>)

----------------------------------------------------------------------------
(* The decorator.                                                          *)

\* packOpsAndStack(packStruct): <<>> for undefined, else <<Packed>>
packOpsAndStack(acc) ==
    IF Len(acc.ops) = 0 THEN <<>>
    ELSE <<pack([isArray |-> FALSE, ops |-> acc.ops, stack |-> acc.stack])>>

\* the PackStruct getTypeOfType fills for a node whose mode is not 'never'
ExtractedPackStruct(type) == extractPackStructOfType(type, EmptyAcc, MaxDepth)

\* getTypeOfType(type): chain is the tags of the node and of its ancestors
getTypeOfType(type, chain) ==
    IF findReflectionConfig(chain).mode = "never" THEN <<>>
    ELSE packOpsAndStack(ExtractedPackStruct(type))

Undecorated(node) == [node |-> node, decorated |-> FALSE, elements |-> <<>>]
Decorated(node, elements) == [node |-> node, decorated |-> TRUE, elements |-> elements]

\* property.name ? property.name : isConstructorDeclaration(property) ? 'constructor' : ''
ClassElementName(property) ==
    IF property.text # "" THEN property.text
    ELSE IF property.kind = "constructor" THEN "constructor" ELSE ""

\* 'string' === typeof name ? false : isIdentifier(name) ? name.text === '__type' : false
\* (a name that is a string literal bears the mark stringLiteralName)
IsTypeMemberName(property) ==
    /\ property.text # ""
    /\ "stringLiteralName" \notin property.mods
    /\ property.text = "__type"

\* the loop of decorateClass over classDeclaration.members: the elements
\* collected, or done = FALSE when a member named __type ended the loop
RECURSIVE ClassElements(_, _, _)
ClassElements(members, chain, elements) ==
    IF members = <<>> THEN [done |-> TRUE, elements |-> elements]
    ELSE LET property == Head(members)
             name == ClassElementName(property)
             encodedType == getTypeOfType(property, <<property.tags>> \o chain)
         IN IF name = "" THEN ClassElements(Tail(members), chain, elements)
            ELSE IF IsTypeMemberName(property) THEN [done |-> FALSE, elements |-> elements]
            ELSE IF encodedType = <<>> THEN ClassElements(Tail(members), chain, elements)
            ELSE ClassElements(Tail(members), chain,
                               Append(elements, [name |-> name, type |-> encodedType[1]]))

\* decorateClass(classDeclaration); parents holds the tags of the ancestors
decorateClass(classDeclaration, parents) ==
    LET chain == <<classDeclaration.tags>> \o parents
        r == ClassElements(classDeclaration.kids, chain, <<>>)
    IN IF findReflectionConfig(chain).mode = "never" THEN Undecorated(classDeclaration)
       ELSE IF ~r.done \/ Len(r.elements) = 0 THEN Undecorated(classDeclaration)
       ELSE Decorated(classDeclaration, r.elements)

\* createPropertyDeclaration(undefined, [static], '__type', undefined, undefined, types)
TypeMember == PropertyDeclaration("__type", <<>>, {"static"}, <<>>)

\* the class declaration decorateClass returns: classDeclaration itself, or
\* updateClassDeclaration(..., [...classDeclaration.members, __type])
updateClassDeclaration(result) ==
    IF result.decorated THEN [result.node EXCEPT !.kids = @ \o <<TypeMember>>]
    ELSE result.node

\* decorateFunctionExpression / decorateFunctionDeclaration / decorateArrow
decorateFunction(node, parents) ==
    LET encodedType == getTypeOfType(node, <<node.tags>> \o parents)
    IN IF encodedType = <<>> THEN Undecorated(node)
       ELSE Decorated(node, <<[name |-> "__type", type |-> encodedType[1]]>>)

\* the visitor of transformSourceFile applied to one statement
Visit(node, parents) ==
    IF node.kind = "class" THEN decorateClass(node, parents)
    ELSE IF node.kind \in {"functionExpression", "functionDeclaration", "arrow"}
    THEN decorateFunction(node, parents)
    ELSE Undecorated(node)

\* transformSourceFile(sourceFile): one result per statement
transformSourceFile(sf) ==
    IF findReflectionConfig(<<sf.tags>>).mode = "never"
    THEN [i \in 1..Len(sf.statements) |-> Undecorated(sf.statements[i])]
    ELSE [i \in 1..Len(sf.statements) |-> Visit(sf.statements[i], <<sf.tags>>)]

----------------------------------------------------------------------------
(* The program under transformation: the declarations of the source file  *)
(* that type references resolve to.                                        *)
(*   import { Model, Color, Mapped, Ghost } from './model';                *)
(*   interface I { a: string; b: number }                                  *)
(*   interface J extends I { a: number; c: boolean }                       *)
(*   type U = string | number | null;   type L = 'a';                      *)
(*   enum E {}   class K {}                                                *)
(*   interface N { next: N }                                               *)
(*   interface P { q: Q }   interface Q { p: P }                           *)
(*   type T = T[]                                                          *)
(*   interface X extends Y {}   interface Y extends X {}                   *)

InterfaceI ==
    Interface("I", <<PropertySignature("a", 1, <<Keyword("string")>>),
                     PropertySignature("b", 1, <<Keyword("number")>>)>>, <<>>)
InterfaceJ ==
    Interface("J", <<PropertySignature("a", 2, <<Keyword("number")>>),
                     PropertySignature("c", 2, <<Keyword("boolean")>>)>>, <<"I">>)
AliasU ==
    TypeAlias("U", UnionT(<<Keyword("string"), Keyword("number"), LiteralT("null", 7)>>))
AliasL == TypeAlias("L", LiteralT("a", 8))
InterfaceN == Interface("N", <<PropertySignature("next", 1, <<Ref("N", <<>>)>>)>>, <<>>)
InterfaceP == Interface("P", <<PropertySignature("q", 1, <<Ref("Q", <<>>)>>)>>, <<>>)
InterfaceQ == Interface("Q", <<PropertySignature("p", 1, <<Ref("P", <<>>)>>)>>, <<>>)
AliasT == TypeAlias("T", ArrayT(Ref("T", <<>>)))
InterfaceX == Interface("X", <<>>, <<"Y">>)
InterfaceY == Interface("Y", <<>>, <<"X">>)

DefaultEnv ==
    [I |-> LocalSymbol(InterfaceI),
     J |-> LocalSymbol(InterfaceJ),
     U |-> LocalSymbol(AliasU),
     L |-> LocalSymbol(AliasL),
     E |-> LocalSymbol(EnumDecl("E")),
     K |-> LocalSymbol(ClassDecl("K", <<>>, <<>>)),
     N |-> LocalSymbol(InterfaceN),
     P |-> LocalSymbol(InterfaceP),
     Q |-> LocalSymbol(InterfaceQ),
     T |-> LocalSymbol(AliasT),
     X |-> LocalSymbol(InterfaceX),
     Y |-> LocalSymbol(InterfaceY),
     Model |-> ImportedSymbol("Model", <<ClassDecl("Model", <<>>, <<>>)>>, "model"),
     Color |-> ImportedSymbol("Color", <<EnumDecl("Color")>>, "model"),
     Mapped |-> ImportedSymbol("Mapped", <<MappedType>>, "model"),
     Ghost |-> ImportedSymbol("Ghost", <<>>, "model")]

----------------------------------------------------------------------------
(* Inputs of the extractor.                                                *)

MaxUnion == 2
MaxParams == 2
MaxMembers == 2
MaxDirs == 2

CoreTypes ==
    {Keyword("string"), Keyword("number"), LiteralT("a", 1), Ref("U", <<>>),
     Ref("Color", <<>>), Ref("Model", <<>>), Ref("Mapped", <<>>)}

UnionMembers ==
    CoreTypes \cup
    {Ref("I", <<>>), Ref("L", <<>>), LiteralT("a", 2), ArrayT(Keyword("string")),
     UnionT(<<Keyword("string"), Keyword("number")>>),
     Paren(UnionT(<<Keyword("number"), Keyword("string")>>))}

LeafTypes ==
    UnionMembers \cup
    {Keyword(k) : k \in {"boolean", "bigint", "void", "null", "undefined", "any"}} \cup
    {Ref(n, <<>>) : n \in {"J", "E", "K", "Ghost", "G", "Date", "Promise", "N", "P", "T", "X"}} \cup
    {Ref("Promise", <<Keyword("string")>>), Ref("Model", <<Keyword("string")>>),
     QualifiedRef("Model"), LiteralT("null", 3),
     TypeLiteral(<<PropertySignature("a", 4, <<Keyword("string")>>),
                   IndexSignature(4, Param(<<Keyword("string")>>), Keyword("number")),
                   MethodSignature("m", 4),
                   PropertySignature("a", 5, <<Keyword("number")>>)>>)}

TypeInputs ==
    LeafTypes \cup {ArrayT(t) : t \in CoreTypes} \cup {Paren(t) : t \in CoreTypes} \cup
    {UnionT(ts) : ts \in SeqsUpTo(UnionMembers, MaxUnion)}

\* a type extracted into the same PackStruct before the one under study
PrevTypes == {Keyword("string"), Ref("I", <<>>), LiteralT("a", 1), Ref("Model", <<>>)}

PropertyTypes ==
    LeafTypes \cup {ArrayT(t) : t \in CoreTypes} \cup {Paren(t) : t \in CoreTypes}

PropertyInputs ==
    {PropertyDeclaration("p", type, mods, <<>>) :
        type \in {<<>>} \cup {<<t>> : t \in PropertyTypes},
        mods \in SUBSET {"optional", "private", "protected", "abstract"}}

ParamChoices ==
    {Param(<<>>), Param(<<Keyword("string")>>), Param(<<Ref("U", <<>>)>>),
     Param(<<LiteralT("a", 1)>>)}

ReturnChoices == {<<>>, <<Keyword("number")>>, <<Ref("U", <<>>)>>, <<LiteralT("a", 1)>>}

CallableInputs ==
    {Callable(kind, IF kind = "constructor" THEN "" ELSE "f", params, type,
              IF kind = "method" THEN mods ELSE {}, <<>>) :
        kind \in CallableKinds, params \in SeqsUpTo(ParamChoices, MaxParams),
        type \in ReturnChoices, mods \in SUBSET {"private", "protected", "abstract"}}

DeclarationInputs == PropertyInputs \cup CallableInputs

----------------------------------------------------------------------------
(* The source files and file systems of the gating runs.                   *)

TagChoices ==
    {<<>>, <<Tag("other", JsStr("never"))>>, <<Tag("reflection", JsUndefined)>>} \cup
    {<<Tag("reflection", JsStr(c))>> : c \in {"always", "default", "never", "foo"}}

MemberTagChoices == {<<>>, <<Tag("reflection", JsStr("never"))>>}

FunctionTagChoices ==
    {<<>>, <<Tag("reflection", JsStr("never"))>>, <<Tag("reflection", JsStr("always"))>>}

ConfigChoices ==
    {NoConfig, BrokenConfig, Config(JsUndefined), Config(JsBool(TRUE)), Config(JsBool(FALSE)),
     Config(JsStr("always")), Config(JsStr("never"))}

\* class C { title: string; m() {} }
\* function f(a: string): number {}
\* const g = (n: Promise<string>) => n
SourceFileWith(classTags, memberTags, functionTags) ==
    [tags |-> <<>>,
     statements |->
        <<ClassDecl("C",
              <<PropertyDeclaration("title", <<Keyword("string")>>, {}, memberTags),
                Callable("method", "m", <<>>, <<>>, {}, <<>>)>>,
              classTags),
          Callable("functionDeclaration", "f", <<Param(<<Keyword("string")>>)>>,
                   <<Keyword("number")>>, {}, functionTags),
          Callable("arrow", "", <<Param(<<Ref("Promise", <<Keyword("string")>>)>>)>>,
                   <<>>, {}, <<>>)>>]

SourceFiles ==
    {SourceFileWith(c, m, f) :
        c \in TagChoices, m \in MemberTagChoices, f \in FunctionTagChoices}

NoSourceFile == [tags |-> <<>>, statements |-> <<>>]

FileSystems == {fs \in SeqsUpTo(ConfigChoices, MaxDirs) : Len(fs) = MaxDirs}

\* a node of the source file: <<>> the file, <<i>> statement i, <<i, j>> its member j
NodePaths(sf) ==
    {<<>>} \cup {<<i>> : i \in 1..Len(sf.statements)} \cup
    UNION {{<<i, j>> : j \in 1..Len(sf.statements[i].kids)} :
              i \in {k \in 1..Len(sf.statements) : sf.statements[k].kind = "class"}}

NodeAt(sf, path) ==
    IF Len(path) = 1 THEN sf.statements[path[1]]
    ELSE sf.statements[path[1]].kids[path[2]]

\* the tags of the node at path, of its parent, ..., of the source file
ChainOf(sf, path) ==
    IF path = <<>> THEN <<sf.tags>>
    ELSE IF Len(path) = 1 THEN <<sf.statements[path[1]].tags, sf.tags>>
    ELSE <<sf.statements[path[1]].kids[path[2]].tags, sf.statements[path[1]].tags, sf.tags>>

----------------------------------------------------------------------------
(* The state machines.                                                     *)

NoLookup == [path |-> <<>>, mode |-> "", reads |-> <<>>, warns |-> <<>>]

CodecIdle ==
    /\ cpc = "input"
    /\ cin = [isArray |-> TRUE, ops |-> <<>>, stack |-> <<>>]
    /\ cpacked = NoPacked
    /\ cout = NoUnpacked

GatingIdle ==
    /\ sourceFile = NoSourceFile
    /\ tpc = "new"
    /\ tout = <<>>
    /\ lookup = NoLookup
    /\ fsreads = <<>>
    /\ lookupsLeft = 0

ExtractIdle ==
    /\ xpc = "idle"
    /\ xdecl = NoNode
    /\ xprev = <<>>
    /\ xentry = EmptyAcc
    /\ xacc = EmptyAcc
    /\ xpacked = <<>>

DecorateIdle ==
    /\ dclass = NoNode
    /\ dprev = NoNode
    /\ dpasses = 0

ResolveIdle ==
    /\ rpc = "idle"
    /\ rname = ""
    /\ rout = <<>>

\* a transformer on which withReflectionMode('default') was called, in a
\* directory tree without tsconfig.json
TransformerEnabled ==
    /\ reflectionMode = "default"
    /\ fsys = [k \in 1..MaxDirs |-> NoConfig]
    /\ env = DefaultEnv

InitCodec ==
    CodecInit /\ TransformerEnabled /\ GatingIdle /\ ExtractIdle /\ DecorateIdle /\ ResolveIdle

SpecCodec == InitCodec /\ [][CodecNext]_vars

(* Extraction: a declaration is handed to getTypeOfType, or a type node is  *)
(* handed to extractPackStructOfType, after an earlier type (xprev) when    *)
(* the PackStruct is not fresh.                                             *)

InitExtract ==
    /\ CodecIdle /\ TransformerEnabled /\ GatingIdle /\ DecorateIdle /\ ResolveIdle
    /\ xpc = "idle"
    /\ \/ xdecl \in DeclarationInputs /\ xprev = <<>>
       \/ xdecl \in TypeInputs /\ xprev \in {<<>>} \cup {<<t>> : t \in PrevTypes}
    /\ xentry = EmptyAcc
    /\ xacc = EmptyAcc
    /\ xpacked = <<>>

IsDeclarationInput(node) == node.kind \in CallableKinds \cup {"propertyDeclaration"}

\* getTypeOfType(declaration) on a fresh PackStruct
GetTypeOfType ==
    /\ xpc = "idle"
    /\ IsDeclarationInput(xdecl)
    /\ xentry' = EmptyAcc
    /\ xacc' = IF findReflectionConfig(<<xdecl.tags, <<>> >>).mode = "never" THEN EmptyAcc
               ELSE ExtractedPackStruct(xdecl)
    /\ xpacked' = getTypeOfType(xdecl, <<xdecl.tags, <<>> >>)
    /\ xpc' = "done"
    /\ UNCHANGED <<xdecl, xprev, cvars, tvars, gvars, dvars, rvars>>

\* extractPackStructOfType(xprev, ops, stack): the earlier type of the PackStruct
ExtractEarlierType ==
    /\ xpc = "idle"
    /\ ~IsDeclarationInput(xdecl)
    /\ xprev # <<>>
    /\ xacc' = extractPackStructOfType(xprev[1], xacc, MaxDepth)
    /\ xpc' = "primed"
    /\ UNCHANGED <<xdecl, xprev, xentry, xpacked, cvars, tvars, gvars, dvars, rvars>>

\* extractPackStructOfType(xdecl, ops, stack), then packOpsAndStack
ExtractType ==
    /\ ~IsDeclarationInput(xdecl)
    /\ \/ xpc = "idle" /\ xprev = <<>>
       \/ xpc = "primed"
    /\ xentry' = xacc
    /\ xacc' = extractPackStructOfType(xdecl, xacc, MaxDepth)
    /\ xpacked' = packOpsAndStack(xacc')
    /\ xpc' = "done"
    /\ UNCHANGED <<xdecl, xprev, cvars, tvars, gvars, dvars, rvars>>

ExtractNext == GetTypeOfType \/ ExtractEarlierType \/ ExtractType

SpecExtract == InitExtract /\ [][ExtractNext]_vars

(* Interfaces: the program is three interfaces I1, I2, I3 whose members and *)
(* extends clauses are drawn; I1 is extracted.                              *)

MemberTypes == <<"string", "number", "boolean">>

NamedMember(name, i) == PropertySignature(name, i, <<Keyword(MemberTypes[i])>>)
UnnamedMember(i) == IndexSignature(i, Param(<<Keyword("string")>>), Keyword(MemberTypes[i]))

I1Members ==
    {NamedMember("a", 1), NamedMember("b", 1), UnnamedMember(1),
     PropertySignature("c", 1, <<Ref("I3", <<>>)>>)}
I2Members == {NamedMember("a", 2), UnnamedMember(2)}
I3Members ==
    {<<>>, <<NamedMember("a", 3)>>, <<NamedMember("b", 3)>>,
     <<NamedMember("a", 3), NamedMember("b", 3)>>}

InterfaceEnvs ==
    {[I1 |-> LocalSymbol(Interface("I1", m1, e1)),
      I2 |-> LocalSymbol(Interface("I2", m2, e2)),
      I3 |-> LocalSymbol(Interface("I3", m3, <<>>)),
      K |-> LocalSymbol(ClassDecl("K", <<>>, <<>>))] :
        m1 \in SeqsUpTo(I1Members, MaxMembers),
        m2 \in SeqsUpTo(I2Members, MaxMembers),
        m3 \in I3Members,
        e1 \in {<<>>, <<"I2">>, <<"I2", "I3">>, <<"I3", "I2">>, <<"G", "K", "I3">>},
        e2 \in {<<>>, <<"I3">>}}

InitInterfaces ==
    /\ CodecIdle /\ GatingIdle /\ DecorateIdle /\ ResolveIdle
    /\ reflectionMode = "default"
    /\ fsys = [k \in 1..MaxDirs |-> NoConfig]
    /\ env \in InterfaceEnvs
    /\ xpc = "idle"
    /\ xdecl = env["I1"].decl[1]
    /\ xprev = <<>>
    /\ xentry = EmptyAcc
    /\ xacc = EmptyAcc
    /\ xpacked = <<>>

SpecInterfaces == InitInterfaces /\ [][ExtractType]_vars

(* Gating: a transformer is constructed for a source file in a directory    *)
(* tree; withReflectionMode may be called; then the file is transformed, or *)
(* the mode of one of its nodes is looked up.                               *)

InitGating ==
    /\ CodecIdle /\ ExtractIdle /\ DecorateIdle /\ ResolveIdle
    /\ reflectionMode = "undefined"
    /\ fsys \in FileSystems
    /\ env = DefaultEnv
    /\ sourceFile \in SourceFiles
    /\ tpc = "new"
    /\ tout = <<>>
    /\ lookup = NoLookup
    /\ fsreads = <<>>
    /\ lookupsLeft = 1

\* withReflectionMode(mode)
WithReflectionMode(mode) ==
    /\ tpc = "new"
    /\ reflectionMode' = mode
    /\ UNCHANGED <<fsys, env, gvars, cvars, xvars, dvars, rvars>>

\* transformSourceFile(sourceFile)
TransformSourceFile ==
    /\ tpc = "new"
    /\ tout' = transformSourceFile(sourceFile)
    /\ tpc' = "transformed"
    /\ UNCHANGED <<sourceFile, lookup, fsreads, lookupsLeft, tvars, cvars, xvars, dvars, rvars>>

\* findReflectionConfig(node) for the node at path
FindReflectionConfig(path) ==
    /\ tpc \in {"new", "looked"}
    /\ lookupsLeft > 0
    /\ lookup' = [path |-> path] @@ findReflectionConfig(ChainOf(sourceFile, path))
    /\ fsreads' = fsreads \o lookup'.reads
    /\ lookupsLeft' = lookupsLeft - 1
    /\ tpc' = "looked"
    /\ UNCHANGED <<sourceFile, tout, tvars, cvars, xvars, dvars, rvars>>

GatingNext ==
    \/ \E mode \in reflectionModes : WithReflectionMode(mode)
    \/ TransformSourceFile
    \/ \E path \in NodePaths(sourceFile) : FindReflectionConfig(path)

SpecGating == InitGating /\ [][GatingNext]_vars

----------------------------------------------------------------------------
(* Codec claims.                                                           *)

IsOpcodeSeq(o) == \A i \in 1..Len(o) : o[i] \in 1..(packSize - 1)

\* C1: for every sequence o of opcodes in 1..63 packed without a stack,
\* unpack(pack(o)).ops = o.
C1_UnpackPackIsIdentityOnOps ==
    (cpc = "unpacked" /\ cin.stack = <<>> /\ IsOpcodeSeq(cin.ops)) => cout.ops = cin.ops

\* C2: for every PackStruct (o, s) with a non-empty stack s, unpack(pack(o, s))
\* returns the stack s, in order, together with the opcodes o.
C2_UnpackPackReturnsStackAndOps ==
    (cpc = "unpacked" /\ ~cin.isArray /\ cin.stack # <<>> /\ IsOpcodeSeq(cin.ops))
        => (cout.stack = cin.stack /\ cout.ops = cin.ops)

\* n * m + a on little-endian base-64 digits
RECURSIVE MulAddLE(_, _, _)
MulAddLE(n, m, a) ==
    IF n = <<>>
    THEN IF a = 0 THEN <<>> ELSE <<a % packSize>> \o MulAddLE(<<>>, m, a \div packSize)
    ELSE LET cur == Head(n) * m + a
         IN <<cur % packSize>> \o MulAddLE(Tail(n), m, cur \div packSize)

\* the number a base-36 text denotes, as little-endian base-64 digits
RECURSIVE Horner36(_)
Horner36(s) ==
    IF s = <<>> THEN <<>>
    ELSE MulAddLE(Horner36(SubSeq(s, 1, Len(s) - 1)), Radix, s[Len(s)])

\* the sum over i of o[i] * 64^i, as little-endian base-64 digits
RECURSIVE SumLE(_)
SumLE(o) == IF o = <<>> THEN <<>> ELSE MulAddLE(SumLE(Tail(o)), packSize, Head(o))

\* s is the base-36 rendering of the number n
IsBase36Of(s, n) ==
    /\ s # <<>>
    /\ \A i \in 1..Len(s) : s[i] \in 0..(Radix - 1)
    /\ (s[1] = 0 => s = <<0>>)
    /\ Horner36(IF s = <<0>> THEN <<>> ELSE s) = n

\* C3: pack returns a single string when the stack is empty or the argument is
\* a bare opcode array, and otherwise an array made of the stack in its order
\* followed by the encoded string; the encoded string is the base-36
\* rendering of the sum over i of ops[i] * 64^i.
C3_PackShapeAndValue ==
    cpc # "input" =>
        LET n == Len(cpacked.elems)
        IN /\ n >= 1
           /\ cpacked.elems[n].kind = "string"
           /\ IsBase36Of(cpacked.elems[n].chars, SumLE(cin.ops))
           /\ IF cin.isArray \/ cin.stack = <<>>
              THEN ~cpacked.isArray /\ n = 1
              ELSE cpacked.isArray /\ SubSeq(cpacked.elems, 1, n - 1) = cin.stack

C3_Witness ==
    /\ cpc = "packed"
    /\ cpacked.isArray
    /\ Len(cin.stack) = 2 /\ cin.stack[1] # cin.stack[2]
    /\ Len(cin.ops) >= 3

----------------------------------------------------------------------------
(* Gating claims.                                                          *)

\* the reflection mode findReflectionConfig gives for the node at path
EffectiveMode(sf, path) == findReflectionConfig(ChainOf(sf, path)).mode

\* statement i of the file is a function with a non-empty pack, or a class
\* one of whose named members has a mode other than never and a non-empty pack
YieldsPack(sf, i) ==
    LET d == sf.statements[i]
    IN IF d.kind = "class"
       THEN \E j \in 1..Len(d.kids) :
                /\ ClassElementName(d.kids[j]) # ""
                /\ EffectiveMode(sf, <<i, j>>) # "never"
                /\ packOpsAndStack(ExtractedPackStruct(d.kids[j])) # <<>>
       ELSE packOpsAndStack(ExtractedPackStruct(d)) # <<>>

\* C4: after transformSourceFile, every class, function or arrow declaration
\* whose own effective reflection mode is not never and that yields a
\* non-empty pack is decorated, whatever the lookup for the source file gives.
C4_DecoratedWheneverOwnModeEnabled ==
    tpc = "transformed" =>
        \A i \in 1..Len(sourceFile.statements) :
            (/\ sourceFile.statements[i].kind \in
                    {"class", "functionDeclaration", "functionExpression", "arrow"}
             /\ EffectiveMode(sourceFile, <<i>>) # "never"
             /\ YieldsPack(sourceFile, i))
                => tout[i].decorated

\* the mode of the first reflection tag of tags whose comment is a recognized
\* mode, as a sequence of at most one mode
RECURSIVE RecognizedTag(_)
RecognizedTag(tags) ==
    IF tags = <<>> THEN <<>>
    ELSE IF /\ Head(tags).name = "reflection"
            /\ Head(tags).comment.t = "string"
            /\ Head(tags).comment.v \in reflectionModes
         THEN <<Head(tags).comment.v>>
         ELSE RecognizedTag(Tail(tags))

\* the nearest recognized reflection tag of the node and its ancestors
RECURSIVE NearestRecognizedTag(_)
NearestRecognizedTag(chain) ==
    IF chain = <<>> THEN <<>>
    ELSE IF RecognizedTag(Head(chain)) # <<>> THEN RecognizedTag(Head(chain))
    ELSE NearestRecognizedTag(Tail(chain))

\* the reflection field of the nearest configuration file from directory k
\* upwards that has one, true read as default and false as never
RECURSIVE NearestConfigured(_)
NearestConfigured(k) ==
    IF k > Len(fsys) THEN <<>>
    ELSE IF fsys[k].exists /\ fsys[k].parses /\ fsys[k].reflection.t # "undefined"
         THEN <<IF fsys[k].reflection.t = "boolean"
                THEN (IF fsys[k].reflection.v = "true" THEN "default" ELSE "never")
                ELSE fsys[k].reflection.v>>
         ELSE NearestConfigured(k + 1)

\* the first match of tag, session override, configuration, never
FirstMatch(chain) ==
    IF NearestRecognizedTag(chain) # <<>> THEN NearestRecognizedTag(chain)[1]
    ELSE IF reflectionMode # "undefined" THEN reflectionMode
    ELSE IF NearestConfigured(1) # <<>> THEN NearestConfigured(1)[1]
    ELSE "never"

\* C5: findReflectionConfig returns the first match of: the nearest reflection
\* tag whose comment is a recognized mode, the session override, the
\* reflection field of the nearest configuration file that has one, never; a
\* tag whose comment is not a recognized mode does not set the mode.
C5_FirstMatchInFixedOrder ==
    tpc = "looked" => lookup.mode = FirstMatch(ChainOf(sourceFile, lookup.path))

----------------------------------------------------------------------------
(* Extraction claims.                                                      *)

\* C6: for a class property declaration with a type annotation T, the opcodes
\* packed for the member are the opcodes of T followed by the property opcode.
C6_PropertyOpcodeFollowsType ==
    (xpc = "done" /\ xdecl.kind = "propertyDeclaration" /\ xdecl.type # <<>>)
        => xacc.ops = ExtractedPackStruct(xdecl.type[1]).ops \o <<OpProperty>>

\* the accumulator after the type of each annotated parameter, in declaration order
RECURSIVE AfterParameters(_, _)
AfterParameters(params, acc) ==
    IF params = <<>> THEN acc
    ELSE AfterParameters(Tail(params),
                         IF Head(params).type = <<>> THEN acc
                         ELSE extractPackStructOfType(Head(params).type[1], acc, MaxDepth))

\* the modifier opcodes of a method: private, protected, abstract in that order
ModifierOps(node) ==
    (IF "private" \in node.mods THEN <<OpPrivate>> ELSE <<>>) \o
    (IF "protected" \in node.mods THEN <<OpProtected>> ELSE <<>>) \o
    (IF "abstract" \in node.mods THEN <<OpAbstract>> ELSE <<>>)

\* parameter types, return type or any, method or function, modifiers of a method
CallableOps(node) ==
    LET a == AfterParameters(node.kids, EmptyAcc)
        r == IF node.type # <<>> THEN extractPackStructOfType(node.type[1], a, MaxDepth).ops
             ELSE a.ops \o <<OpAny>>
    IN r \o <<IF node.kind \in {"method", "constructor"} THEN OpMethod ELSE OpFunction>>
         \o (IF node.kind = "method" THEN ModifierOps(node) ELSE <<>>)

\* C7 as stated: a callable with zero parameters and no return annotation emits
\* nothing and is left undecorated; every other callable emits its annotated
\* parameter types in order, the return type or any, method (methods and
\* constructors) or function, and for methods private, protected, abstract.
C7_CallableOpcodes_AsStated ==
    (xpc = "done" /\ xdecl.kind \in CallableKinds) =>
        IF Len(xdecl.kids) = 0 /\ xdecl.type = <<>>
        THEN xacc.ops = <<>> /\ xpacked = <<>>
        ELSE xacc.ops = CallableOps(xdecl)

\* C7: as stated for every callable other than a constructor that carries a
\* return type annotation; for such a constructor the extractor emits the
\* opcodes of the annotation followed by the constructor opcode, and nothing
\* for its parameters.
C7_CallableOpcodes ==
    (xpc = "done" /\ xdecl.kind \in CallableKinds) =>
        IF xdecl.kind = "constructor" /\ xdecl.type # <<>>
        THEN xacc.ops = ExtractedPackStruct(xdecl.type[1]).ops \o <<OpConstructor>>
        ELSE IF Len(xdecl.kids) = 0 /\ xdecl.type = <<>>
        THEN xacc.ops = <<>> /\ xpacked = <<>>
        ELSE xacc.ops = CallableOps(xdecl)

C7_Witness ==
    /\ xpc = "done"
    /\ xdecl.kind = "method"
    /\ xdecl.mods = {"private", "protected", "abstract"}
    /\ Len(xdecl.kids) = 2
    /\ xdecl.kids[1].type = <<>> /\ xdecl.kids[2].type # <<>>
    /\ xdecl.type = <<>>
    /\ xacc.ops = <<OpString, OpAny, OpMethod, OpPrivate, OpProtected, OpAbstract>>
    /\ xpacked # <<>>

\* C8: a union of 0 subtypes emits nothing, a union of 1 subtype emits that
\* subtype's opcodes only, a union of n >= 2 subtypes emits frame exactly when
\* the accumulator was non-empty on entry, then its subtypes' opcodes in source
\* order, then union; so in every stream a union of n >= 2 subtypes that has
\* no frame of its own starts its first subtype at position 0.
C8_UnionOpcodes ==
    xpc = "done" =>
        /\ xdecl.kind = "union" =>
              LET n == Len(xdecl.kids)
                  pre == xentry.ops
                  framed == IF pre # <<>> THEN PushOp(xentry, OpFrame) ELSE xentry
              IN IF n = 0 THEN xacc.ops = pre
                 ELSE IF n = 1
                 THEN xacc.ops = extractPackStructOfType(xdecl.kids[1], xentry, MaxDepth).ops
                 ELSE /\ xacc.ops = extractEach(xdecl.kids, framed, MaxDepth).ops \o <<OpUnion>>
                      /\ SubSeq(xacc.ops, 1, Len(pre)) = pre
                      /\ (pre # <<>>) <=> (xacc.ops[Len(pre) + 1] = OpFrame
                                             /\ xacc.ann[Len(pre) + 1] = NoAnn
                                             /\ xacc.unions[Len(xacc.unions)].first = Len(pre) + 1)
        /\ \A k \in 1..Len(xacc.unions) :
              LET u == xacc.unions[k]
              IN /\ xacc.ops[u.at] = OpUnion /\ xacc.ann[u.at] = NoAnn
                 /\ \/ u.first = u.entry /\ u.entry = 0
                    \/ /\ u.first = u.entry + 1 /\ u.entry > 0
                       /\ xacc.ops[u.first] = OpFrame /\ xacc.ann[u.first] = NoAnn

C8_Witness ==
    /\ xpc = "done"
    /\ xdecl.kind = "union" /\ Len(xdecl.kids) = 2
    /\ xdecl.kids[2].kind = "union"
    /\ xentry.ops = <<OpString>>
    /\ Len(xacc.unions) = 2
    /\ xacc.ops[2] = OpFrame
    /\ xacc.ops[Len(xacc.ops)] = OpUnion

\* the interface an extends clause names, as a sequence of at most one declaration
ExtendedInterface(name) ==
    IF name \in DOMAIN env /\ env[name].decl # <<>> /\ env[name].decl[1].kind = "interface"
    THEN <<env[name].decl[1]>>
    ELSE <<>>

\* the members of an interface followed, depth-first and in the order of its
\* extends clause, by those of the interfaces it extends
RECURSIVE AllMembers(_, _)
RECURSIVE ParentMembers(_, _)
AllMembers(declaration, depth) ==
    IF depth = 0 THEN <<>>
    ELSE declaration.kids \o ParentMembers(declaration.ext, depth)
ParentMembers(ext, depth) ==
    IF ext = <<>> THEN <<>>
    ELSE (IF ExtendedInterface(Head(ext)) = <<>> THEN <<>>
          ELSE AllMembers(ExtendedInterface(Head(ext))[1], depth - 1))
         \o ParentMembers(Tail(ext), depth)

\* ms without the named members whose name an earlier member of ms bears
FirstOfEachName(ms) ==
    LET keep(i) == ms[i].text = "" \/ \A j \in 1..(i - 1) : ms[j].text # ms[i].text
        RECURSIVE pick(_)
        pick(i) == IF i > Len(ms) THEN <<>>
                   ELSE (IF keep(i) THEN <<ms[i]>> ELSE <<>>) \o pick(i + 1)
    IN pick(1)

C10_ParameterIsStackIndex ==
    /\ (xpc = "done" /\ xdecl.kind = "literal" /\ xdecl.text # "null") =>
           LET n == Len(xacc.ops)
           IN /\ n >= 2 /\ xacc.ops[n - 1] = OpLiteral
              /\ xacc.ops[n] \in 0..(Len(xacc.stack) - 1)
              /\ xacc.stack[xacc.ops[n] + 1] = LiteralNode(NameChars(xdecl.text), xdecl.id)
    /\ \A p \in 1..Len(xacc.ops) :
        (xacc.ann[p] = NoAnn /\ xacc.ops[p] \in {OpLiteral, OpPropertySignature, OpEnum}) =>
            /\ p + 1 <= Len(xacc.ops)
            /\ xacc.ann[p + 1] # NoAnn
            /\ 0 <= xacc.ops[p + 1]
            /\ xacc.ops[p + 1] < xacc.ann[p + 1].at
            /\ xacc.ann[p + 1].at <= Len(xacc.stack)
            /\ xacc.stack[xacc.ops[p + 1] + 1] = xacc.ann[p + 1].entry
            /\ xacc.ann[p + 1].entry.kind =
                   (CASE xacc.ops[p] = OpLiteral -> "literalNode"
                      [] xacc.ops[p] = OpPropertySignature -> "string"
                      [] xacc.ops[p] = OpEnum -> "arrow")

C10_Witness ==
    /\ xpc = "done"
    /\ Len(xacc.stack) >= 3
    /\ \E p \in 1..Len(xacc.ops) : xacc.ann[p] = NoAnn /\ xacc.ops[p] = OpLiteral
    /\ \E p \in 1..Len(xacc.ops) : xacc.ann[p] = NoAnn /\ xacc.ops[p] = OpPropertySignature
    /\ \E p \in 1..Len(xacc.ops) : xacc.ann[p] = NoAnn /\ xacc.ops[p] = OpEnum

\* the text of a stack entry: what it is and how it reads, whichever node it is
TextOf(entry) == [kind |-> entry.kind, chars |-> entry.chars]

\* C11: after an extraction the literal stack holds no two textually equal
\* entries: equal property names, equal literal values and lazy references to
\* the same class or enum share one index.
C11_NoTextuallyEqualEntries ==
    xpc = "done" =>
        \A i, j \in 1..Len(xacc.stack) :
            i # j => TextOf(xacc.stack[i]) # TextOf(xacc.stack[j])

----------------------------------------------------------------------------
(* Decoration: a class declaration is handed to decorateClass, and what a  *)
(* pass returns is handed to the next pass.                                *)

MaxPasses == 2

ClassMemberChoices ==
    {PropertyDeclaration("title", <<Keyword("string")>>, {}, <<>>),
     PropertyDeclaration("title", <<Keyword("string")>>, {}, <<Tag("reflection", JsStr("never"))>>),
     Callable("method", "m", <<>>, <<>>, {}, <<>>),
     Callable("constructor", "", <<Param(<<Keyword("string")>>)>>, <<>>, {}, <<>>),
     TypeMember,
     PropertyDeclaration("__type", <<>>, {"static", "stringLiteralName"}, <<>>)}

TypeMemberCount(class) ==
    Cardinality({i \in 1..Len(class.kids) : class.kids[i].text = "__type"})

ClassInputs ==
    {c \in {ClassDecl("C", members, tags) :
                members \in SeqsUpTo(ClassMemberChoices, MaxMembers),
                tags \in {<<>>, <<Tag("reflection", JsStr("never"))>>}} :
        TypeMemberCount(c) <= 1}

InitDecorate ==
    /\ CodecIdle /\ TransformerEnabled /\ GatingIdle /\ ExtractIdle /\ ResolveIdle
    /\ dclass \in ClassInputs
    /\ dprev = NoNode
    /\ dpasses = 0

\* classDeclaration = decorateClass(classDeclaration)
DecorateClass ==
    /\ dpasses < MaxPasses
    /\ dprev' = dclass
    /\ dclass' = updateClassDeclaration(decorateClass(dclass, << <<>> >>))
    /\ dpasses' = dpasses + 1
    /\ UNCHANGED <<cvars, tvars, gvars, xvars, rvars>>

SpecDecorate == InitDecorate /\ [][DecorateClass]_vars

\* the members of a class other than those named __type
RECURSIVE OtherMembers(_)
OtherMembers(members) ==
    IF members = <<>> THEN <<>>
    ELSE (IF Head(members).text = "__type" THEN <<>> ELSE <<Head(members)>>)
         \o OtherMembers(Tail(members))

\* no member of the class has a name, a mode other than never and a non-empty pack
NoMemberYieldsPack(class) ==
    \A i \in 1..Len(class.kids) :
        \/ ClassElementName(class.kids[i]) = ""
        \/ findReflectionConfig(<<class.kids[i].tags, class.tags, <<>> >>).mode = "never"
        \/ packOpsAndStack(ExtractedPackStruct(class.kids[i])) = <<>>

\* C12: a pass of decorateClass returns unchanged a class that has a member
\* named __type at any position, and a class none of whose members yields a
\* pack; after any number of passes the class has at most one __type member
\* and its other members are those it had before.
C12_DecorateClassIdempotent ==
    dpasses > 0 =>
        /\ TypeMemberCount(dprev) > 0 => dclass = dprev
        /\ NoMemberYieldsPack(dprev) => dclass = dprev
        /\ TypeMemberCount(dclass) <= 1
        /\ OtherMembers(dclass.kids) = OtherMembers(dprev.kids)
        /\ [dclass EXCEPT !.kids = <<>>] = [dprev EXCEPT !.kids = <<>>]

\* the identifier is resolved through an import specifier
IsImported(name) ==
    name \in DOMAIN env /\ env[name].decl # <<>> /\ env[name].decl[1].kind = "importSpecifier"

\* the stack holds a lazy reference () => name
HasLazyReference(acc, name) ==
    \E i \in 1..Len(acc.stack) :
        acc.stack[i].kind = "arrow" /\ acc.stack[i].chars = NameChars(name)

\* C13: whenever the stack holds a lazy reference to a class or an enum whose
\* identifier was resolved through an import specifier, that import specifier
\* carries the synthesized flag; an extraction never clears a flag that an
\* earlier extraction set.
C13_ImportsOfLazyReferencesKept ==
    /\ \A name \in DOMAIN env :
           (IsImported(name) /\ HasLazyReference(xacc, name)) => name \in xacc.synth
    /\ xentry.synth \subseteq xacc.synth

C13_Witness ==
    /\ xpc = "done"
    /\ xprev = <<Ref("Model", <<>>)>>
    /\ xentry.synth = {"Model"}
    /\ HasLazyReference(xacc, "Color") /\ HasLazyReference(xacc, "Model")
    /\ xacc.synth = {"Model", "Color"}

----------------------------------------------------------------------------
(* More codec claims.                                                      *)

\* a number, as little-endian base-64 digits, is at most 2^53 - 1
IsSafeInteger(d) == Len(d) <= 8 \/ (Len(d) = 9 /\ d[9] < 32)

\* every group of 12 characters of s, counted from its end, denotes a safe integer
RECURSIVE GroupsAreSafe(_)
GroupsAreSafe(s) ==
    IF s = <<>> THEN TRUE
    ELSE /\ IsSafeInteger(Horner36(SliceLast(s, ChunkLen)))
         /\ GroupsAreSafe(SliceDropLast(s, ChunkLen))

\* C14: when the packed integer of an opcode sequence exceeds 2^53 - 1, pack
\* emits 12-character base-36 groups that each hold a safe integer, and unpack
\* returns the original sequence.
C14_MultiChunkBeyondSafeRange ==
    (cpc # "input" /\ cin.stack = <<>> /\ IsOpcodeSeq(cin.ops)
               /\ ~IsSafeInteger(SumLE(cin.ops))) =>
        /\ GroupsAreSafe(cpacked.elems[Len(cpacked.elems)].chars)
        /\ cpc = "unpacked" => cout.ops = cin.ops

----------------------------------------------------------------------------
(* Repeated lookups: findReflectionConfig is called several times on one   *)
(* transformer, for nodes of one source file.                              *)

MaxLookups == 2

InitLookups ==
    /\ CodecIdle /\ ExtractIdle /\ DecorateIdle /\ ResolveIdle
    /\ reflectionMode = "undefined"
    /\ fsys \in FileSystems
    /\ env = DefaultEnv
    /\ sourceFile \in {SourceFileWith(<<>>, <<>>, f) : f \in FunctionTagChoices}
    /\ tpc = "new"
    /\ tout = <<>>
    /\ lookup = NoLookup
    /\ fsreads = <<>>
    /\ lookupsLeft = MaxLookups

LookupsNext == \E path \in NodePaths(sourceFile) : FindReflectionConfig(path)

SpecLookups == InitLookups /\ [][LookupsNext]_vars

\* C15: across the findReflectionConfig calls made on one transformer, the
\* configuration file of a directory is read and parsed at most once.
C15_EachConfigReadAtMostOnce ==
    \A i, j \in 1..Len(fsreads) : i # j => fsreads[i] # fsreads[j]

\* the directories before k, nearest first, whose tsconfig.json exists and does not parse
RECURSIVE UnparseableBefore(_, _)
UnparseableBefore(i, k) ==
    IF i >= k THEN <<>>
    ELSE (IF fsys[i].exists /\ ~fsys[i].parses THEN <<i>> ELSE <<>>)
         \o UnparseableBefore(i + 1, k)

\* the nearest directory whose tsconfig.json parses and has a reflection field,
\* Len(fsys) + 1 when there is none
DecidingDir ==
    LET S == {k \in 1..Len(fsys) :
                 fsys[k].exists /\ fsys[k].parses /\ fsys[k].reflection.t # "undefined"}
    IN IF S = {} THEN Len(fsys) + 1 ELSE CHOOSE k \in S : \A j \in S : k <= j

\* C16: in a lookup that reaches the configuration files, a tsconfig.json that
\* exists and does not parse gets one warning, gives no mode, and the lookup
\* goes on with the outer directories: it returns the first outer reflection
\* field found, or never when there is none.
C16_UnparseableConfigIsSkipped ==
    (tpc = "looked" /\ reflectionMode = "undefined"
         /\ ScanChain(ChainOf(sourceFile, lookup.path)) = <<>>) =>
        /\ lookup.warns = UnparseableBefore(1, DecidingDir)
        /\ lookup.mode = IF DecidingDir > Len(fsys) THEN "never"
                         ELSE NearestConfigured(DecidingDir)[1]

C16_Witness ==
    /\ tpc = "looked"
    /\ reflectionMode = "undefined"
    /\ fsys[1] = BrokenConfig /\ fsys[2] = Config(JsStr("always"))
    /\ lookup.warns = <<1>>
    /\ lookup.reads = <<1, 2>>
    /\ lookup.mode = "always"

----------------------------------------------------------------------------
(* More extraction claims.                                                 *)

\* C17: every entry the extractor appends to the instruction stream, opcode
\* or parameter index, lies in 1..63: it fills one 6-bit slot and is never 0.
C17_EveryEntryFillsOneNonZeroSlot ==
    \A p \in 1..Len(xacc.ops) : xacc.ops[p] \in 1..(packSize - 1)

----------------------------------------------------------------------------
(* Resolution: an identifier of the source file is handed to               *)
(* resolveDeclaration; env holds the symbol the type checker gives for it. *)

ResolveNames == {"Model", "Color", "Message", "Shape", "Form", "I", "Nope"}

\* import { name } from 'module', whose declared type yields a declaration or none
ImportedSymbols(name) ==
    {ImportedSymbol(name, declared, module) :
        declared \in {<<>>, <<ClassDecl(name, <<>>, <<>>)>>},
        module \in {"model", "shapes", "index", "missing"}}

InitResolve ==
    /\ CodecIdle /\ GatingIdle /\ ExtractIdle /\ DecorateIdle
    /\ reflectionMode = "default"
    /\ fsys = [k \in 1..MaxDirs |-> NoConfig]
    /\ rname \in ResolveNames
    /\ \/ env = <<>>
       \/ env = (rname :> LocalSymbol(Interface(rname, <<>>, <<>>)))
       \/ \E symbol \in ImportedSymbols(rname) : env = (rname :> symbol)
    /\ rpc = "idle"
    /\ rout = <<>>

\* resolveDeclaration(e) on the identifier rname
ResolveDeclaration ==
    /\ rpc = "idle"
    /\ rout' = resolveDeclaration(Ref(rname, <<>>))
    /\ rpc' = "done"
    /\ UNCHANGED <<rname, cvars, tvars, gvars, xvars, dvars>>

SpecResolve == InitResolve /\ [][ResolveDeclaration]_vars

\* C18: for an identifier whose first declaration is an import specifier and
\* whose declared type yields no declaration, resolveDeclaration returns the
\* declaration the imported module provides under the identifier's name: its
\* local declaration of that name, or the one its re-exports lead to.
C18_FallbackResolvesTheName ==
    (rpc = "done" /\ IsImported(rname) /\ env[rname].declared = <<>>) =>
        LET provided == resolveImportSpecifier(rname, env[rname].module, MaxDepth)
        IN rout = IF provided = <<>> THEN <<>>
                  ELSE <<[declaration |-> provided[1], importSpecifier |-> <<rname>>]>>

\* C19: every extraction returns with a finite instruction stream, also for
\* self-referential declarations: an interface with a property of its own
\* type, two interfaces that refer to each other, a type alias that refers to
\* itself through an array, interfaces whose extends clauses form a cycle.
C19_ExtractionTerminates ==
    xpc = "done" => ~xacc.overflow

====
